---------------------------- MODULE Spec2Model ----------------------------
(***************************************************************************)
(* A model of convert_to_html.py: a script that opens a PDF, runs          *)
(* pdfminer's extract_text_to_fp into an in-memory StringIO, writes the    *)
(* buffer to an HTML file opened with mode 'w' and encoding utf-8, and     *)
(* prints a confirmation line.                                             *)
(*                                                                         *)
(* The state is the script's position (pc), its objects (output_string,    *)
(* the two file handles), the process's standard output and exit status,   *)
(* and the part of the filesystem it touches (the source file, the         *)
(* destination's parent directory, the destination file as bytes).         *)
(* The script may be run again once a run has ended; the filesystem is     *)
(* what one run leaves to the next.                                        *)
(***************************************************************************)
EXTENDS Integers, Sequences

\* ------------------------------------------------------------------ bounds

\* Pages of a source document.
MaxPages == 2
\* Bytes of the content the destination holds before the first run.
MaxOld == 2
\* Runs of the script in sequence.
MaxRuns == 2

\* ------------------------------------------------------------- environment

\* A page of the source as the extraction routine meets it: text in ASCII,
\* text outside ASCII, or content it cannot parse.
Pages == {"ascii", "nonascii", "bad"}

RECURSIVE SeqsUpTo(_, _)
SeqsUpTo(S, n) ==
    IF n = 0 THEN {<<>>}
    ELSE LET shorter == SeqsUpTo(S, n - 1)
         IN shorter \cup {Append(s, x) : s \in {t \in shorter : Len(t) = n - 1}, x \in S}

PDFs == SeqsUpTo(Pages, MaxPages)

\* The source path: no file there, a file that cannot be read, or a file.
Sources ==
    {[state |-> "missing", pdf |-> <<>>]}
        \cup [state : {"unreadable", "ok"}, pdf : PDFs]

\* Content the destination may hold before the first run: bytes ("o") that
\* no extraction emits.
OldContents == SeqsUpTo({111}, MaxOld)

Absent == [exists |-> FALSE, bytes |-> <<>>]
File(b) == [exists |-> TRUE, bytes |-> b]

\* The destination's parent directory: not there, there but refusing the
\* open for writing (permissions), or there and writable.
DirStates == {"missing", "unwritable", "ok"}

\* os.linesep of the platform the script runs on.
LineSeps == {"posix", "nt"}

\* html_path, the literal of line 8.
html_path == "Electrical_Inspection_Checklists.html"

VARIABLES
    pc,             \* the statement the script is at
    src,            \* the file at pdf_path
    dstDir,         \* the parent directory of html_path
    dst,            \* the file at html_path
    linesep,        \* the platform's line separator
    output_string,  \* the StringIO's content, a sequence of characters
    page,           \* pages the extraction has consumed
    in_file,        \* whether the source handle is open
    out_file,       \* whether the destination handle is open
    written,        \* the text handed to out_file.write, in a sequence
    stdout,         \* the lines printed by this run
    exit,           \* the process's exit status: running, zero, nonzero
    steps,          \* history: the statements this run has begun
    failedAt,       \* history: the statement that raised, or none
    dst0,           \* history: the destination as this run found it
    history         \* history: how each earlier run ended

vars == <<pc, src, dstDir, dst, linesep, output_string, page, in_file, out_file,
          written, stdout, exit, steps, failedAt, dst0, history>>

fsVars == <<src, dstDir, linesep, dst0, history>>


\* ---------------------------------------------------- the extraction routine

\* What pdfminer's HTML converter emits: a header when it is constructed,
\* the text of each page as the page is processed, a footer when it is
\* closed.  Characters are named: lt "<", gt ">", a "a", eacute U+00E9,
\* nl "\n".
Header == <<"lt">>
Footer == <<"gt", "nl">>

PageText(p) == IF p = "ascii" THEN <<"a">> ELSE <<"eacute">>

\* The whole output for a document, as a function of its pages.
RECURSIVE Body(_)
Body(pdf) == IF pdf = <<>> THEN <<>> ELSE PageText(Head(pdf)) \o Body(Tail(pdf))

Html(pdf) == Header \o Body(pdf) \o Footer

Valid(pdf) == \A i \in 1..Len(pdf) : pdf[i] # "bad"

\* ------------------------------------------------------- the text-mode file

\* The bytes a text-mode file opened with encoding='utf-8' and the default
\* newline=None stores for one character: its UTF-8 encoding, "\n" written
\* as os.linesep.
Utf8(ls, c) ==
    CASE c = "nl" -> (IF ls = "nt" THEN <<13, 10>> ELSE <<10>>)
      [] c = "eacute" -> <<195, 169>>
      [] c = "lt" -> <<60>>
      [] c = "gt" -> <<62>>
      [] OTHER -> <<97>>

RECURSIVE Encode(_, _)
Encode(ls, text) ==
    IF text = <<>> THEN <<>> ELSE Utf8(ls, Head(text)) \o Encode(ls, Tail(text))

IsPrefix(p, s) == Len(p) <= Len(s) /\ SubSeq(s, 1, Len(p)) = p

\* output_string.read() in place of getvalue(): the stream position is at the
\* end after the extraction's writes, and nothing is read.
read_at_end(buf) == <<>>

\* output_string.getvalue(): the whole buffer, whatever the stream position.
getvalue(buf) == buf

\* Mode 'a' in place of 'w': the file keeps what it holds.
OpenForAppending(f) == File(f.bytes)

\* open(html_path, 'w'): the file is created or truncated to no bytes.
OpenForWriting(f) == File(<<>>)

\* The parent directory made on demand (os.makedirs before the open).
CanCreateAnywhere(dir) == dir # "unwritable"

\* open(html_path, 'w') needs the parent directory to exist and be writable.
CanCreate(dir) == dir = "ok"

\* open(pdf_path, 'rb') needs a readable file at the path.
CanRead(s) == s.state = "ok"

\* ------------------------------------------------------------------- state

Terminal == pc \in {"done", "failed"}

Init ==
    /\ pc = "import"
    /\ src \in Sources
    /\ dstDir \in DirStates
    /\ dst \in {Absent} \cup {File(b) : b \in OldContents}
    /\ dstDir = "missing" => dst = Absent
    /\ linesep \in LineSeps
    /\ output_string = <<>>
    /\ page = 0
    /\ in_file = FALSE
    /\ out_file = FALSE
    /\ written = <<>>
    /\ stdout = <<>>
    /\ exit = "running"
    /\ steps = <<>>
    /\ failedAt = "none"
    /\ dst0 = dst
    /\ history = <<>>

\* An exception no handler catches ends the process with a nonzero status.
Raise(at) ==
    /\ pc' = "failed"
    /\ failedAt' = at
    /\ exit' = "nonzero"

\* Lines 1-4: the imports.
Import ==
    /\ pc = "import"
    /\ pc' = "buffer"
    /\ steps' = Append(steps, "import")
    /\ UNCHANGED <<dst, output_string, page, in_file, out_file, written, stdout,
                   exit, failedAt>>
    /\ UNCHANGED fsVars

\* Lines 1-2: pdfminer is not installed.
ImportFail ==
    /\ pc = "import"
    /\ steps' = Append(steps, "import")
    /\ Raise("import")
    /\ UNCHANGED <<dst, output_string, page, in_file, out_file, written, stdout>>
    /\ UNCHANGED fsVars

\* Line 11: output_string = StringIO().
NewBuffer ==
    /\ pc = "buffer"
    /\ output_string' = <<>>
    /\ pc' = "open_src"
    /\ UNCHANGED <<dst, page, in_file, out_file, written, stdout, exit, steps,
                   failedAt>>
    /\ UNCHANGED fsVars

\* Line 12: open(pdf_path, 'rb') succeeds.
OpenSrc ==
    /\ pc = "open_src"
    /\ CanRead(src)
    /\ in_file' = TRUE
    /\ steps' = Append(steps, "open_src")
    /\ pc' = "extract"
    /\ UNCHANGED <<dst, output_string, page, out_file, written, stdout, exit,
                   failedAt>>
    /\ UNCHANGED fsVars

\* The open's failure caught and passed over: the script goes on to line 16.
OpenSrcFailSwallowed ==
    /\ pc = "open_src"
    /\ ~CanRead(src)
    /\ steps' = Append(steps, "open_src")
    /\ pc' = "open_dst"
    /\ failedAt' = "open_src"
    /\ UNCHANGED <<dst, output_string, page, in_file, out_file, written, stdout,
                   exit>>
    /\ UNCHANGED fsVars

\* Line 12: open(pdf_path, 'rb') raises; no with-block has been entered.
OpenSrcFail ==
    /\ pc = "open_src"
    /\ ~CanRead(src)
    /\ steps' = Append(steps, "open_src")
    /\ Raise("open_src")
    /\ UNCHANGED <<dst, output_string, page, in_file, out_file, written, stdout>>
    /\ UNCHANGED fsVars

\* Line 13: extract_text_to_fp is called; the converter is constructed and
\* emits its header into output_string.
ExtractCall ==
    /\ pc = "extract"
    /\ steps' = Append(steps, "extract")
    /\ output_string' = output_string \o Header
    /\ page' = 0
    /\ pc' = "extracting"
    /\ UNCHANGED <<dst, in_file, out_file, written, stdout, exit, failedAt>>
    /\ UNCHANGED fsVars

\* Line 13: one page is processed and its text emitted.
ExtractPage ==
    /\ pc = "extracting"
    /\ page < Len(src.pdf)
    /\ src.pdf[page + 1] # "bad"
    /\ output_string' = output_string \o PageText(src.pdf[page + 1])
    /\ page' = page + 1
    /\ UNCHANGED <<pc, dst, in_file, out_file, written, stdout, exit, steps,
                   failedAt>>
    /\ UNCHANGED fsVars

\* Line 13: the routine raises on content it cannot parse; the exception
\* travels to the with-block of line 12.
ExtractRaise ==
    /\ pc = "extracting"
    /\ page < Len(src.pdf)
    /\ src.pdf[page + 1] = "bad"
    /\ pc' = "unwind_src"
    /\ failedAt' = "extract"
    /\ UNCHANGED <<dst, output_string, page, in_file, out_file, written, stdout,
                   exit, steps>>
    /\ UNCHANGED fsVars

\* Line 13: the last page is done; the converter is closed, emits its footer,
\* and the routine returns.
ExtractReturn ==
    /\ pc = "extracting"
    /\ page = Len(src.pdf)
    /\ output_string' = output_string \o Footer
    /\ pc' = "close_src"
    /\ UNCHANGED <<dst, page, in_file, out_file, written, stdout, exit, steps,
                   failedAt>>
    /\ UNCHANGED fsVars

\* Lines 12-13: the with-block ends normally and closes in_file.
CloseSrc ==
    /\ pc = "close_src"
    /\ in_file' = FALSE
    /\ pc' = "open_dst"
    /\ UNCHANGED <<dst, output_string, page, out_file, written, stdout, exit,
                   steps, failedAt>>
    /\ UNCHANGED fsVars

\* No with-block around the extraction: the exception leaves in_file open.
CloseSrcOnErrorLeak ==
    /\ pc = "unwind_src"
    /\ Raise(failedAt)
    /\ UNCHANGED <<dst, output_string, page, in_file, out_file, written, stdout,
                   steps>>
    /\ UNCHANGED fsVars

\* The extraction's failure caught and passed over: the script goes on to
\* line 16 with what the buffer holds.
CloseSrcOnErrorSwallowed ==
    /\ pc = "unwind_src"
    /\ in_file' = FALSE
    /\ pc' = "open_dst"
    /\ UNCHANGED <<dst, output_string, page, out_file, written, stdout, exit,
                   steps, failedAt>>
    /\ UNCHANGED fsVars

\* Lines 12-13: the with-block is left by the exception: in_file is closed
\* and the exception goes on, unhandled.
CloseSrcOnError ==
    /\ pc = "unwind_src"
    /\ in_file' = FALSE
    /\ Raise(failedAt)
    /\ UNCHANGED <<dst, output_string, page, out_file, written, stdout, steps>>
    /\ UNCHANGED fsVars

\* Line 16: open(html_path, 'w', encoding='utf-8') succeeds.
OpenDst ==
    /\ pc = "open_dst"
    /\ CanCreate(dstDir)
    /\ dst' = OpenForWriting(dst)
    /\ out_file' = TRUE
    /\ steps' = Append(steps, "open_dst")
    /\ pc' = "write"
    /\ UNCHANGED <<output_string, page, in_file, written, stdout, exit, failedAt>>
    /\ UNCHANGED fsVars

\* The open's failure caught and passed over: the script goes on to line 19.
OpenDstFailSwallowed ==
    /\ pc = "open_dst"
    /\ ~CanCreate(dstDir)
    /\ steps' = Append(steps, "open_dst")
    /\ pc' = "print"
    /\ failedAt' = "open_dst"
    /\ UNCHANGED <<dst, output_string, page, in_file, out_file, written, stdout,
                   exit>>
    /\ UNCHANGED fsVars

\* Line 16: open(html_path, 'w', encoding='utf-8') raises.
OpenDstFail ==
    /\ pc = "open_dst"
    /\ ~CanCreate(dstDir)
    /\ steps' = Append(steps, "open_dst")
    /\ Raise("open_dst")
    /\ UNCHANGED <<dst, output_string, page, in_file, out_file, written, stdout>>
    /\ UNCHANGED fsVars

\* Line 17: out_file.write(output_string.getvalue()); the encoded text
\* reaches the file.
Write ==
    /\ pc = "write"
    /\ written' = Append(written, getvalue(output_string))
    /\ dst' = File(dst.bytes \o Encode(linesep, getvalue(output_string)))
    /\ steps' = Append(steps, "write")
    /\ pc' = "close_dst"
    /\ UNCHANGED <<output_string, page, in_file, out_file, stdout, exit, failedAt>>
    /\ UNCHANGED fsVars

\* The write made through a temporary file that replaces the destination only
\* on success: a failed write leaves the destination as the run found it.
WriteFailKeepsOld ==
    /\ pc = "write"
    /\ dst' = dst0
    /\ written' = Append(written, getvalue(output_string))
    /\ steps' = Append(steps, "write")
    /\ pc' = "unwind_dst"
    /\ failedAt' = "write"
    /\ UNCHANGED <<output_string, page, in_file, out_file, stdout, exit>>
    /\ UNCHANGED fsVars

\* Line 17: the device fails (it is full, it is gone) when only the first
\* n bytes have reached the file; the exception travels to the with-block
\* of line 16.
WriteFail ==
    /\ pc = "write"
    /\ \E n \in 0..Len(Encode(linesep, getvalue(output_string))) :
           dst' = File(dst.bytes
                       \o SubSeq(Encode(linesep, getvalue(output_string)), 1, n))
    /\ written' = Append(written, getvalue(output_string))
    /\ steps' = Append(steps, "write")
    /\ pc' = "unwind_dst"
    /\ failedAt' = "write"
    /\ UNCHANGED <<output_string, page, in_file, out_file, stdout, exit>>
    /\ UNCHANGED fsVars

\* Lines 16-17: the with-block ends normally and closes out_file.
CloseDst ==
    /\ pc = "close_dst"
    /\ out_file' = FALSE
    /\ pc' = "print"
    /\ UNCHANGED <<dst, output_string, page, in_file, written, stdout, exit,
                   steps, failedAt>>
    /\ UNCHANGED fsVars

\* The write's failure caught and passed over: the script goes on to line 19.
CloseDstOnErrorSwallowed ==
    /\ pc = "unwind_dst"
    /\ out_file' = FALSE
    /\ pc' = "print"
    /\ UNCHANGED <<dst, output_string, page, in_file, written, stdout, exit,
                   steps, failedAt>>
    /\ UNCHANGED fsVars

\* Lines 16-17: the with-block is left by the exception: out_file is closed
\* and the exception goes on, unhandled.
CloseDstOnError ==
    /\ pc = "unwind_dst"
    /\ out_file' = FALSE
    /\ Raise(failedAt)
    /\ UNCHANGED <<dst, output_string, page, in_file, written, stdout, steps>>
    /\ UNCHANGED fsVars

\* Line 19: print(f"HTML saved to {html_path}"), the last statement: the
\* process ends with status zero.
SavedLine == <<"HTML saved to ", html_path>>

PrintSaved ==
    /\ pc = "print"
    /\ stdout' = Append(stdout, SavedLine)
    /\ steps' = Append(steps, "print")
    /\ pc' = "done"
    /\ exit' = "zero"
    /\ UNCHANGED <<dst, output_string, page, in_file, out_file, written, failedAt>>
    /\ UNCHANGED fsVars

\* The script is run again: a new process, the filesystem as the last run
\* left it.
Rerun ==
    /\ Terminal
    /\ Len(history) + 1 < MaxRuns
    /\ history' = Append(history, [ok |-> exit = "zero", dst |-> dst])
    /\ dst0' = dst
    /\ pc' = "import"
    /\ output_string' = <<>>
    /\ page' = 0
    /\ in_file' = FALSE
    /\ out_file' = FALSE
    /\ written' = <<>>
    /\ stdout' = <<>>
    /\ exit' = "running"
    /\ steps' = <<>>
    /\ failedAt' = "none"
    /\ UNCHANGED <<src, dstDir, dst, linesep>>

\* One statement of the running process.
Step ==
    \/ Import
    \/ ImportFail
    \/ NewBuffer
    \/ OpenSrc
    \/ OpenSrcFail
    \/ ExtractCall
    \/ ExtractPage
    \/ ExtractRaise
    \/ ExtractReturn
    \/ CloseSrc
    \/ CloseSrcOnError
    \/ OpenDst
    \/ OpenDstFail
    \/ Write
    \/ WriteFail
    \/ CloseDst
    \/ CloseDstOnError
    \/ PrintSaved

Next == Step \/ Rerun

Spec == Init /\ [][Next]_vars

\* A process that has started runs until it ends: nothing suspends it.
FairSpec == Spec /\ WF_vars(Step)

\* ------------------------------------------------------------- the claims

InSteps(x) == \E i \in 1..Len(steps) : steps[i] = x

\* The script's statements in the order of the file.
Order == <<"import", "open_src", "extract", "open_dst", "write", "print">>

\* What the destination holds once the whole buffer has been stored.
Stored == Encode(linesep, output_string)

AfterWrite == pc \in {"close_dst", "print", "done"}

\* C1: when the source cannot be opened (no file at the path, or an unreadable
\* one), the run ends in failure at the open of line 12: the destination is
\* never opened and stays as the run found it, absent or with its content.
C1_MissingSourceLeavesDestination ==
    ~CanRead(src) =>
        /\ dst = dst0
        /\ ~InSteps("open_dst")
        /\ ~out_file
        /\ stdout = <<>>
        /\ InSteps("open_src") => pc = "failed" /\ failedAt = "open_src"
        /\ Terminal => exit = "nonzero"

C1_Witness ==
    /\ src.state = "missing"
    /\ pc = "failed"
    /\ failedAt = "open_src"
    /\ dst0.exists
    /\ dst0.bytes # <<>>
    /\ dst = dst0

\* C2: when the destination's parent directory does not exist, the run fails
\* at the open of line 16: no file appears at the destination and nothing is
\* printed, also when the source was opened and extracted in full.
C2_MissingDirectoryCreatesNothing ==
    dstDir = "missing" =>
        /\ dst = Absent
        /\ ~out_file
        /\ stdout = <<>>
        /\ InSteps("open_dst") => pc = "failed" /\ failedAt = "open_dst"
        /\ Terminal => exit = "nonzero"

C2_Witness ==
    /\ dstDir = "missing"
    /\ pc = "failed"
    /\ failedAt = "open_dst"
    /\ src.pdf # <<>>
    /\ output_string = Html(src.pdf)
    /\ dst = Absent

\* C3: whatever the destination held before the run (nothing, no bytes, other
\* content), once the write has succeeded it holds the stored form of the
\* buffer and nothing else: nothing of the old content is kept.
C3_DestinationReplaced ==
    AfterWrite => dst = File(Stored)

C3_Witness ==
    /\ pc = "done"
    /\ dst0.exists
    /\ dst0.bytes # <<>>
    /\ src.pdf # <<>>
    /\ dst = File(Stored)

\* C4 as stated: after a successful run the length of the data in the
\* destination file equals the length of the output buffer.
C4_Original ==
    pc = "done" => Len(dst.bytes) = Len(output_string)

OneByteEach == \A i \in 1..Len(output_string) : Len(Utf8(linesep, output_string[i])) = 1

\* C4 as amended: the text handed to the one write is the whole buffer, which
\* is the extraction's full output and unchanged since the extraction
\* returned; the file holds its UTF-8 encoding with "\n" stored as the
\* platform's line separator, so the file is at least as many bytes long as
\* the buffer is characters, and as long only when every character is stored
\* as one byte.
C4_WholeBufferEncoded ==
    AfterWrite =>
        /\ Valid(src.pdf)
        /\ output_string = Html(src.pdf)
        /\ written = <<output_string>>
        /\ dst.bytes = Stored
        /\ Len(dst.bytes) >= Len(output_string)
        /\ Len(dst.bytes) = Len(output_string) <=> OneByteEach

C4_Witness ==
    /\ pc = "done"
    /\ Valid(src.pdf)
    /\ src.pdf # <<>>
    /\ written = <<output_string>>
    /\ Len(dst.bytes) > Len(output_string)

\* C5: the confirmation line is printed at most once, only as the last step of
\* a run whose steps all succeeded, after the write and with both handles
\* closed; a run that has failed anywhere has printed nothing, and a run that
\* ended well has printed it.
C5_ConfirmationOnlyOnSuccess ==
    /\ Len(stdout) <= 1
    /\ stdout # <<>> =>
           /\ stdout = <<SavedLine>>
           /\ pc = "done"
           /\ failedAt = "none"
           /\ steps = Order
           /\ ~in_file
           /\ ~out_file
           /\ dst = File(Stored)
    /\ pc = "done" => stdout = <<SavedLine>>
    /\ failedAt # "none" => stdout = <<>>
    /\ Terminal /\ failedAt = "none" => pc = "done"

C5_Witness ==
    /\ pc = "done"
    /\ stdout = <<SavedLine>>
    /\ ~out_file

\* C6: a run that succeeds leaves in the destination a content that is a
\* function of the source and the platform alone, so it is the content every
\* earlier successful run on the same source left.
C6_RerunSameContent ==
    pc = "done" =>
        /\ dst = File(Encode(linesep, Html(src.pdf)))
        /\ \A i \in 1..Len(history) : history[i].ok => history[i].dst = dst

C6_Witness ==
    /\ pc = "done"
    /\ history # <<>>
    /\ history[1].ok
    /\ history[1].dst = dst
    /\ src.pdf # <<>>

\* C7: the source handle is open exactly from the open of line 12 to the end
\* of its with-block, the destination handle exactly from the open of line 16
\* to the end of its with-block; never both at once, the source handle closed
\* before the destination is opened, none open once the run has ended, however
\* it ended.
C7_HandlesScoped ==
    /\ ~(in_file /\ out_file)
    /\ in_file <=> pc \in {"extract", "extracting", "close_src", "unwind_src"}
    /\ out_file <=> pc \in {"write", "close_dst", "unwind_dst"}
    /\ InSteps("open_dst") => ~in_file
    /\ Terminal => ~in_file /\ ~out_file

C7_Witness ==
    /\ pc = "failed"
    /\ failedAt = "extract"
    /\ ~in_file
    /\ ~out_file

C8_Linear ==
    /\ Len(steps) <= Len(Order)
    /\ steps = SubSeq(Order, 1, Len(steps))
    /\ exit = "running" <=> ~Terminal
    /\ exit = "zero" <=> pc = "done"
    /\ exit = "nonzero" <=> pc = "failed"
    /\ pc = "done" => failedAt = "none" /\ steps = Order
    /\ pc = "failed" => failedAt # "none" /\ steps[Len(steps)] = failedAt

\* C8: a run executes the statements in the order of the file, each at most
\* once; it ends with status zero exactly when every statement succeeded, and
\* with a nonzero status at the first statement that fails, which is the last
\* one it executes; and every run that has started ends.
C8_RunTerminates ==
    []C8_Linear /\ (~Terminal ~> Terminal)

C8_Witness ==
    /\ pc = "failed"
    /\ failedAt = "open_dst"
    /\ steps = SubSeq(Order, 1, 4)
    /\ exit = "nonzero"

\* C9: when the extraction raises, also after it has put part of its output
\* in the buffer, the destination is never opened and stays as the run found
\* it; nothing is printed and the run ends in failure.
C9_ExtractionFailureLeavesDestination ==
    failedAt = "extract" =>
        /\ dst = dst0
        /\ ~InSteps("open_dst")
        /\ ~out_file
        /\ stdout = <<>>
        /\ pc \in {"unwind_src", "failed"}
        /\ Terminal => exit = "nonzero"

C9_Witness ==
    /\ failedAt = "extract"
    /\ pc = "failed"
    /\ Len(output_string) > Len(Header)
    /\ dst0.exists
    /\ dst0.bytes # <<>>
    /\ dst = dst0

\* C10: the destination is empty as soon as the open of line 16 has succeeded;
\* from then on it exists and holds a prefix of the buffer's stored form,
\* never the old content with or without new content; a failed write ends the
\* run in failure with nothing printed.
C10_OldContentDestroyedAtOpen ==
    /\ pc = "write" => dst = File(<<>>)
    /\ InSteps("open_dst") /\ failedAt # "open_dst" =>
           dst.exists /\ IsPrefix(dst.bytes, Stored)
    /\ failedAt = "write" =>
           /\ stdout = <<>>
           /\ pc \in {"unwind_dst", "failed"}
           /\ Terminal => exit = "nonzero"

C10_Witness ==
    /\ failedAt = "write"
    /\ pc = "failed"
    /\ dst0.bytes # <<>>
    /\ dst.bytes # <<>>
    /\ dst.bytes # Stored
    /\ IsPrefix(dst.bytes, Stored)

=============================================================================
